---- MODULE Spec2Model ----
(***************************************************************************)
(* go-ChiProxy: a logging reverse proxy.  Two programs of the repository   *)
(* are modelled: src/main.go (prog = "main") and the earlier variant       *)
(* src/unnamed/part_000 (prog = "part0").  Each client request is served   *)
(* by its own goroutine: handler -> ReverseProxy.ServeHTTP -> director ->  *)
(* customRoundTripper.RoundTrip -> underlying transport -> client.         *)
(* The goroutines share only the target (a *url.URL) and os.Stdout.        *)
(***************************************************************************)
EXTENDS Integers, Sequences, FiniteSets, TLC

VARIABLES prog, target, ex, out

vars == <<prog, target, ex, out>>

\* ---------------------------------------------------------------- bounds
NumExchanges == 2
MaxBody == 2
TailLen == 1

Exchanges == 1..NumExchanges

\* ------------------------------------------------------ program constants
StatusInternalServerError == 500
StatusBadGateway == 502

\* target, err := url.Parse(*targetURL): the value the shared *url.URL is
\* given at startup.
StartupTarget == [Scheme |-> "https", Host |-> "backend.example", Path |-> "/svc"]

\* ------------------------------------------------------------ byte data
\* The request body of n bytes and the response body of n bytes.
ReqBytes(n) == [i \in 1..n |-> i]
RespBytes(n) == [i \in 1..n |-> 10 + i]

\* ---------------------------------------------------------------- errors
NoErr == "nil"

\* ----------------------------------------------------- single-read streams
\* An io.ReadCloser: the bytes it carries, how many were consumed, after how
\* many delivered bytes the source breaks (-1: never), whether Close closes
\* anything (io.NopCloser does not) and whether it was closed.
NoStream == [data |-> <<>>, pos |-> 0, failAt |-> -1, nop |-> TRUE, closed |-> FALSE]

NetStream(b, failAt) ==
    [data |-> b, pos |-> 0, failAt |-> failAt, nop |-> FALSE, closed |-> FALSE]

\* io.NopCloser(bytes.NewBuffer(b))
NopCloserBuffer(b) ==
    [data |-> b, pos |-> 0, failAt |-> -1, nop |-> TRUE, closed |-> FALSE]

\* Where reading s stops: at the break, or at the end of the data.
ReadEnd(s) == IF s.failAt >= 0 /\ s.failAt < Len(s.data) THEN s.failAt ELSE Len(s.data)

\* io.ReadAll(s): the bytes from the current offset up to the end or the
\* break, the error of a broken source, and the stream left drained.
ReadAll(s) ==
    LET stop == ReadEnd(s)
        from == IF s.pos > stop THEN stop ELSE s.pos
    IN  [bytes |-> SubSeq(s.data, from + 1, stop),
         err |-> IF s.failAt >= 0 THEN "read_err" ELSE NoErr,
         after |-> [s EXCEPT !.pos = stop]]

\* s.Close()
Close(s) == IF s.nop THEN s ELSE [s EXCEPT !.closed = TRUE]

\* The streams of one exchange, by the place that creates them.
StreamNames ==
    {"client", "h_fwd", "h_log", "rt_fwd", "rt_log", "upstream", "resp_fwd", "resp_log"}

NilBody == "nil"

\* ---------------------------------------------------------------- headers
\* An http.Header is a set of <<canonical name, values>> pairs.
CanonicalMIMEHeaderKey(k) ==
    CASE k = "x-forwarded-for" -> "X-Forwarded-For"
      [] k = "content-type" -> "Content-Type"
      [] OTHER -> k

HeaderNames(h) == {p[1] : p \in h}

HeaderGet(h, k) ==
    IF \E p \in h : p[1] = CanonicalMIMEHeaderKey(k)
    THEN (CHOOSE p \in h : p[1] = CanonicalMIMEHeaderKey(k))[2]
    ELSE <<>>

\* h.Del(k)
HeaderDel(h, k) == {p \in h : p[1] # CanonicalMIMEHeaderKey(k)}

\* h.Set(k, v)
HeaderSet(h, k, v) == HeaderDel(h, k) \cup {<<CanonicalMIMEHeaderKey(k), v>>}

\* net/http's server parses the header block into canonical names.
ParseHeader(wire) == {<<CanonicalMIMEHeaderKey(p[1]), p[2]>> : p \in wire}

\* --------------------------------------------------------------- requests
NoURL == [Scheme |-> "", Host |-> "", Path |-> "", RawQuery |-> ""]

NoRequest ==
    [Method |-> "", URL |-> NoURL, Host |-> "", Header |-> {}, Body |-> NilBody,
     ContentLength |-> 0, RemoteAddr |-> <<>>]

\* What a client puts on the wire: the body (sent with its Content-Length),
\* whether the client sends its own x-forwarded-for header, and after how
\* many bytes the upload breaks (-1: it does not).
NoSent == [body |-> <<>>, xff |-> FALSE, failAt |-> -1]

ClientRequests ==
    {[body |-> ReqBytes(n), xff |-> x, failAt |-> f] :
        n \in {0, MaxBody}, x \in BOOLEAN, f \in -1..(MaxBody - 1)}

\* An upload breaks in its middle, after at least one byte.
ValidClientRequest(s) == s.failAt # -1 => (s.failAt >= 1 /\ s.failAt < Len(s.body))

WireHeader(s) ==
    {<<"content-type", <<"text/xml">>>>}
        \cup (IF s.xff THEN {<<"x-forwarded-for", <<"10.0.0.9">>>>} ELSE {})

\* The *http.Request net/http's server hands to the handler for upload s.
ServerRequest(e, s) ==
    [Method |-> IF Len(s.body) = 0 THEN "GET" ELSE "POST",
     URL |-> [Scheme |-> "", Host |-> "", Path |-> "/in", RawQuery |-> "q=1"],
     Host |-> "proxy.local:8080",
     Header |-> ParseHeader(WireHeader(s)),
     Body |-> "client",
     ContentLength |-> Len(s.body),
     RemoteAddr |-> <<"10.1.1.1", e>>]

\* ----------------------------------------------------------------- dumps
NoText == [first |-> <<>>, host |-> "", header |-> {}, body |-> <<>>]

\* Mutant: the dump shows the request as the director rewrites it.
DumpRequestRewritten(req, bytes) ==
    [first |-> <<req.Method, target.Path, req.URL.RawQuery>>,
     host |-> target.Host, header |-> req.Header, body |-> bytes]

\* httputil.DumpRequest(req, true): request line, Host, headers and the body
\* read from req.Body.  A dump reads the body of the copy it is given, also
\* when rendering then fails.
DumpRequest(req, bytes) ==
    [first |-> <<req.Method, req.URL.Path, req.URL.RawQuery>>,
     host |-> req.Host, header |-> req.Header, body |-> bytes]

\* httputil.DumpRequestOut(req, true): the request as the transport would
\* write it.
DumpRequestOut(req, bytes) ==
    [first |-> <<req.Method, req.URL.Path, req.URL.RawQuery>>,
     host |-> IF req.Host # "" THEN req.Host ELSE req.URL.Host,
     header |-> req.Header, body |-> bytes]

\* httputil.DumpResponse(resp, true)
DumpResponse(resp, bytes) ==
    [first |-> <<resp.StatusCode>>, host |-> "", header |-> resp.Header, body |-> bytes]

\* ---------------------------------------------------------------- stdout
\* os.Stdout is append-only; the model keeps its last TailLen writes.  One
\* write is one fmt.Println or one slog record.
Entry(e, kind, part, text) == [ex |-> e, kind |-> kind, part |-> part, text |-> text]

Write(o, entry) ==
    LET s == Append(o, entry) IN IF Len(s) > TailLen THEN Tail(s) ELSE s

Slog(o, e, msg) == Write(o, Entry(e, "slog", msg, NoText))

Println(o, e, kind, part, text) == Write(o, Entry(e, kind, part, text))

\* ------------------------------------------------------------- exchanges
NoResponse == [present |-> FALSE, StatusCode |-> 0, Header |-> {}, Body |-> NilBody]

NoUpstream == [calls |-> 0, req |-> NoRequest, body |-> <<>>, offset |-> 0]

NoReply == [count |-> 0, status |-> 0, body |-> <<>>]

\* What RoundTrip returned to ReverseProxy: whether it has returned, whether
\* the *http.Response is non-nil, and the error.
NoReturn == [returned |-> FALSE, resp |-> FALSE, err |-> NoErr]

Return(hasResp, err) == [returned |-> TRUE, resp |-> hasResp, err |-> err]

IdleExchange ==
    [pc |-> "idle", sent |-> NoSent, r |-> NoRequest, body |-> <<>>,
     req |-> NoRequest, reqBody |-> <<>>, dump |-> NoText, err |-> NoErr,
     resp |-> NoResponse, respBody |-> <<>>, ret |-> NoReturn,
     up |-> NoUpstream, rw |-> NoReply, director |-> 0,
     st |-> [n \in StreamNames |-> NoStream]]

Programs == {"main", "part0"}

Init ==
    /\ prog \in Programs
    /\ target = StartupTarget
    /\ ex = [e \in Exchanges |-> IdleExchange]
    /\ out = <<>>

\* ----------------------------------------------------------- the server
\* net/http accepts a request and starts handler on a goroutine of its own.
Accept(e) ==
    /\ ex[e].pc = "idle"
    /\ \E s \in ClientRequests :
        /\ ValidClientRequest(s)
        /\ ex' = [ex EXCEPT ![e].pc = "h_read",
                            ![e].sent = s,
                            ![e].r = ServerRequest(e, s),
                            ![e].st["client"] = NetStream(s.body, s.failAt)]
    /\ UNCHANGED <<prog, target, out>>

\* ------------------------------------------------------------- handler
\* Mutant: the error is not written to the client.
httpErrorNoWrite(rw, code) == rw

\* http.Error(w, msg, code)
httpError(rw, code) == [count |-> rw.count + 1, status |-> code, body |-> <<>>]

\* Mutant: the read error is dropped and the handler goes on with the bytes
\* it got.
handler_ReadBodyIgnoringError(e) ==
    LET x == ex[e]
        rd == ReadAll(x.st[x.r.Body])
    IN  /\ x.pc = "h_read"
        /\ ex' = [ex EXCEPT ![e].pc = "h_info",
                            ![e].body = rd.bytes,
                            ![e].st[x.r.Body] = Close(rd.after)]
        /\ UNCHANGED <<prog, target, out>>

\* handler: body, err = io.ReadAll(r.Body); on error log, answer 500 and
\* return; otherwise r.Body.Close().
handler_ReadBody(e) ==
    LET x == ex[e]
        rd == ReadAll(x.st[x.r.Body])
    IN  /\ x.pc = "h_read"
        /\ IF x.r.Body = NilBody
           THEN /\ ex' = [ex EXCEPT ![e].pc = "h_info"]
                /\ out' = out
           ELSE IF rd.err # NoErr
           THEN /\ ex' = [ex EXCEPT ![e].pc = "done",
                                    ![e].st[x.r.Body] = rd.after,
                                    ![e].rw = httpError(x.rw, StatusInternalServerError)]
                /\ out' = Slog(out, e, "client_body_read_failed")
           ELSE /\ ex' = [ex EXCEPT ![e].pc = "h_info",
                                    ![e].body = rd.bytes,
                                    ![e].st[x.r.Body] = Close(rd.after)]
                /\ out' = out
        /\ UNCHANGED <<prog, target>>

\* handler: logger.Info("request received", method, path, ...)
handler_LogReceived(e) ==
    /\ ex[e].pc = "h_info"
    /\ ex' = [ex EXCEPT ![e].pc = "h_dump"]
    /\ out' = Slog(out, e, "client_request")
    /\ UNCHANGED <<prog, target>>

\* Mutant: a dump that cannot be rendered ends the exchange with a 500.
handler_DumpAborts(e) ==
    LET x == ex[e]
        logBody == NopCloserBuffer(x.body)
        rd == ReadAll(logBody)
    IN  /\ x.pc = "h_dump"
        /\ \E fails \in BOOLEAN :
            IF fails /\ prog = "main"
            THEN /\ ex' = [ex EXCEPT ![e].pc = "done",
                                     ![e].err = "dump_err",
                                     ![e].st["h_log"] = rd.after,
                                     ![e].rw = [count |-> x.rw.count + 1,
                                                status |-> StatusInternalServerError,
                                                body |-> <<>>]]
                 /\ out' = Write(out, Entry(e, "slog", "client_dump_failed", NoText))
            ELSE /\ ex' = [ex EXCEPT ![e].pc = "h_print_text",
                                     ![e].dump = IF fails THEN NoText
                                                 ELSE DumpRequest(x.r, rd.bytes),
                                     ![e].st["h_log"] = rd.after]
                 /\ out' = Write(out, Entry(e, "client", "open", NoText))
        /\ UNCHANGED <<prog, target>>

\* handler: logReq := r.Clone(ctx); logReq.Body = NopCloser(NewBuffer(body));
\* reqDump, err := httputil.DumpRequest(logReq, true); then the error record
\* (main.go) or the opening frame line.  part_000 drops the error and prints
\* whatever DumpRequest returned.
handler_Dump(e) ==
    LET x == ex[e]
        logBody == NopCloserBuffer(x.body)
        rd == ReadAll(logBody)
    IN  /\ x.pc = "h_dump"
        /\ \E fails \in BOOLEAN :
            IF fails /\ prog = "main"
            THEN /\ ex' = [ex EXCEPT ![e].pc = "h_serve",
                                     ![e].err = "dump_err",
                                     ![e].st["h_log"] = rd.after]
                 /\ out' = Slog(out, e, "client_dump_failed")
            ELSE /\ ex' = [ex EXCEPT ![e].pc = "h_print_text",
                                     ![e].dump = IF fails THEN NoText
                                                 ELSE DumpRequest(x.r, rd.bytes),
                                     ![e].st["h_log"] = rd.after]
                 /\ out' = Println(out, e, "client", "open", NoText)
        /\ UNCHANGED <<prog, target>>

\* handler: fmt.Println(reqColorPrinter(string(reqDump))); fmt.Println(closing frame)
handler_Println(e) ==
    LET x == ex[e]
    IN  /\ x.pc \in {"h_print_text", "h_print_close"}
        /\ IF x.pc = "h_print_text"
           THEN /\ ex' = [ex EXCEPT ![e].pc = "h_print_close"]
                /\ out' = Println(out, e, "client", "text", x.dump)
           ELSE /\ ex' = [ex EXCEPT ![e].pc = "h_serve", ![e].dump = NoText]
                /\ out' = Println(out, e, "client", "close", NoText)
        /\ UNCHANGED <<prog, target>>

\* --------------------------------------------------------- ReverseProxy
\* Mutant: the director also takes the (empty) query of the target.
directorDropsQuery(req) ==
    [req EXCEPT !.URL = [Scheme |-> target.Scheme, Host |-> target.Host,
                         Path |-> target.Path, RawQuery |-> ""],
                !.Host = target.Host]

\* director: the destination becomes the target's; nothing else is touched,
\* and target is only read.
director(req) ==
    [req EXCEPT !.URL.Scheme = target.Scheme,
                !.URL.Host = target.Host,
                !.URL.Path = target.Path,
                !.Host = target.Host]

\* ReverseProxy.ServeHTTP: outreq := req.Clone(ctx), with a nil Body when
\* the inbound ContentLength is 0.
ReverseProxy_outreq(r) ==
    [r EXCEPT !.Body = IF r.ContentLength = 0 THEN NilBody ELSE r.Body]

\* ReverseProxy.ServeHTTP after the director: the client's address is
\* appended to any X-Forwarded-For the request carries and set on outreq.
ReverseProxy_addForwardedFor(outreq, r) ==
    [outreq EXCEPT !.Header =
        HeaderSet(outreq.Header, "X-Forwarded-For",
                  HeaderGet(outreq.Header, "X-Forwarded-For") \o <<r.RemoteAddr>>)]

\* handler: r.Body = NopCloser(NewBuffer(body)); proxy.ServeHTTP(w, r), up
\* to the call of Transport.RoundTrip(outreq).
handler_ServeHTTP(e) ==
    LET x == ex[e]
        r2 == [x.r EXCEPT !.Body = "h_fwd"]
    IN  /\ x.pc = "h_serve"
        /\ ex' = [ex EXCEPT ![e].pc = "rt_entry",
                            ![e].r = r2,
                            ![e].st["h_fwd"] = NopCloserBuffer(x.body),
                            ![e].err = NoErr,
                            ![e].director = x.director + 1,
                            ![e].req = ReverseProxy_addForwardedFor(
                                           director(ReverseProxy_outreq(r2)), r2)]
        /\ UNCHANGED <<prog, target, out>>

\* -------------------------------------------------------------- RoundTrip
\* Mutant: the clone keeps the Body it shares with req.
RoundTrip_logBodyShared == "rt_fwd"

\* RoundTrip: the stream logReq.Body is set to (a buffer of its own).
RoundTrip_logBody == "rt_log"

\* Mutant: the shallow copy keeps the Body it shares with resp.
RoundTrip_logRespBodyShared == "resp_fwd"

\* RoundTrip: the stream logResp.Body is set to (a buffer of its own).
RoundTrip_logRespBody == "resp_log"

\* Mutant: the header is left in place.
RoundTrip_keepForwardedFor(req) == req

\* RoundTrip: req.Header.Del("X-Forwarded-For")
RoundTrip_delForwardedFor(req) ==
    [req EXCEPT !.Header = HeaderDel(req.Header, "X-Forwarded-For")]

\* RoundTrip up to its first write: delete the header, drain req.Body (if
\* any), restore it from the buffer, give the clone a buffer, dump the
\* clone, and emit the error record or the log record of the dump.
\* main.go returns (nil, err) when the drain fails; part_000 ignores the
\* read error and the dump error, and closes the drained stream.
RoundTrip_Begin(e) ==
    LET x == ex[e]
        req1 == RoundTrip_delForwardedFor(x.req)
        hasBody == req1.Body # NilBody
        rd == ReadAll(x.st[req1.Body])
        bytes == IF hasBody THEN rd.bytes ELSE <<>>
        st1 == IF hasBody
               THEN [x.st EXCEPT ![req1.Body] =
                        IF prog = "part0" THEN Close(rd.after) ELSE rd.after]
               ELSE x.st
        st2 == [st1 EXCEPT !["rt_fwd"] = NopCloserBuffer(bytes)]
        req2 == [req1 EXCEPT !.Body = "rt_fwd"]
        st3 == [st2 EXCEPT ![RoundTrip_logBody] = NopCloserBuffer(bytes)]
        logReq == [req2 EXCEPT !.Body = RoundTrip_logBody]
        drd == ReadAll(st3[logReq.Body])
        st4 == [st3 EXCEPT ![logReq.Body] = drd.after]
    IN  /\ x.pc = "rt_entry"
        /\ IF prog = "main" /\ hasBody /\ rd.err # NoErr
           THEN /\ ex' = [ex EXCEPT ![e].pc = "rp_error",
                                    ![e].req = req1,
                                    ![e].st = st1,
                                    ![e].ret = Return(FALSE, rd.err)]
                /\ out' = Slog(out, e, "request_body_read_failed")
           ELSE \E fails \in BOOLEAN :
                IF fails /\ prog = "main"
                THEN /\ ex' = [ex EXCEPT ![e].pc = "rt_call",
                                         ![e].req = req2,
                                         ![e].reqBody = bytes,
                                         ![e].st = st4,
                                         ![e].err = "dump_err"]
                     /\ out' = Slog(out, e, "out_dump_failed")
                ELSE /\ ex' = [ex EXCEPT ![e].pc = "rt_print_open",
                                         ![e].req = req2,
                                         ![e].reqBody = bytes,
                                         ![e].st = st4,
                                         ![e].dump = IF fails THEN NoText
                                                     ELSE DumpRequestOut(logReq, drd.bytes)]
                     /\ out' = Slog(out, e, "out_request")
        /\ UNCHANGED <<prog, target>>

\* Mutant: the request is sent between the dump text and the closing frame.
RoundTrip_PrintlnAroundSend(e) ==
    LET x == ex[e]
        rd == ReadAll(x.st[x.req.Body])
    IN  /\ x.pc \in {"rt_print_open", "rt_print_text", "rt_print_close"}
        /\ CASE x.pc = "rt_print_open" ->
                  /\ ex' = [ex EXCEPT ![e].pc = "rt_print_text"]
                  /\ out' = Println(out, e, "out", "open", NoText)
             [] x.pc = "rt_print_text" ->
                  /\ ex' = [ex EXCEPT ![e].pc = "rt_print_close",
                                      ![e].up = [calls |-> x.up.calls + 1,
                                                 req |-> x.req,
                                                 body |-> rd.bytes,
                                                 offset |-> x.st[x.req.Body].pos],
                                      ![e].st[x.req.Body] = rd.after]
                  /\ out' = Println(out, e, "out", "text", x.dump)
             [] OTHER ->
                  /\ ex' = [ex EXCEPT ![e].pc = "rt_wait", ![e].dump = NoText]
                  /\ out' = Println(out, e, "out", "close", NoText)
        /\ UNCHANGED <<prog, target>>

\* RoundTrip: the three fmt.Println of the outbound dump.
RoundTrip_Println(e) ==
    LET x == ex[e]
    IN  /\ x.pc \in {"rt_print_open", "rt_print_text", "rt_print_close"}
        /\ CASE x.pc = "rt_print_open" ->
                  /\ ex' = [ex EXCEPT ![e].pc = "rt_print_text"]
                  /\ out' = Println(out, e, "out", "open", NoText)
             [] x.pc = "rt_print_text" ->
                  /\ ex' = [ex EXCEPT ![e].pc = "rt_print_close"]
                  /\ out' = Println(out, e, "out", "text", x.dump)
             [] OTHER ->
                  /\ ex' = [ex EXCEPT ![e].pc = "rt_call", ![e].dump = NoText]
                  /\ out' = Println(out, e, "out", "close", NoText)
        /\ UNCHANGED <<prog, target>>

\* crt.proxied.RoundTrip(req) is called: the underlying transport writes the
\* request to the upstream, reading req.Body from where it stands.
Transport_RoundTrip(e) ==
    LET x == ex[e]
        rd == ReadAll(x.st[x.req.Body])
    IN  /\ x.pc = "rt_call"
        /\ ex' = [ex EXCEPT ![e].pc = "rt_wait",
                            ![e].up = [calls |-> x.up.calls + 1,
                                       req |-> x.req,
                                       body |-> rd.bytes,
                                       offset |-> x.st[x.req.Body].pos],
                            ![e].st[x.req.Body] = rd.after]
        /\ UNCHANGED <<prog, target, out>>

\* What the upstream can answer: a status with a body of 0 or MaxBody bytes,
\* whose download may break in its middle.
UpstreamResponses ==
    {[n |-> n, failAt |-> f] : n \in {0, MaxBody}, f \in -1..(MaxBody - 1)}

ValidUpstreamResponse(u) == u.failAt # -1 => (u.failAt >= 1 /\ u.failAt < u.n)

UpstreamStatus(u) == IF u.n = 0 THEN 204 ELSE 200

\* crt.proxied.RoundTrip(req) returns: an error (connection refused, ...) or
\* a response whose Body is the stream from the upstream.  main.go goes on
\* in RoundTrip; part_000 returns the transport's result as it is.
Transport_Return(e) ==
    LET x == ex[e]
    IN  /\ x.pc = "rt_wait"
        /\ \/ ex' = [ex EXCEPT ![e].pc = IF prog = "main" THEN "rt_failed" ELSE "rp_error",
                               ![e].err = "conn_refused",
                               ![e].ret = IF prog = "main" THEN x.ret
                                          ELSE Return(FALSE, "conn_refused")]
           \/ \E u \in UpstreamResponses :
                /\ ValidUpstreamResponse(u)
                /\ ex' = [ex EXCEPT
                            ![e].pc = IF prog = "main" THEN "rt_resp" ELSE "mr_read",
                            ![e].err = NoErr,
                            ![e].resp = [present |-> TRUE,
                                         StatusCode |-> UpstreamStatus(u),
                                         Header |-> {<<"Content-Type", <<"text/xml">>>>},
                                         Body |-> "upstream"],
                            ![e].st["upstream"] = NetStream(RespBytes(u.n), u.failAt),
                            ![e].ret = IF prog = "main" THEN x.ret
                                       ELSE Return(TRUE, NoErr)]
        /\ UNCHANGED <<prog, target, out>>

\* Mutant: the transport's error is wrapped in a new error.
RoundTrip_FailedWrapsError(e) ==
    LET x == ex[e]
    IN  /\ x.pc = "rt_failed"
        /\ ex' = [ex EXCEPT ![e].pc = "rp_error",
                            ![e].ret = Return(FALSE, "wrapped_error")]
        /\ out' = Slog(out, e, "target_request_failed")
        /\ UNCHANGED <<prog, target>>

\* Mutant: a failed attempt is sent again.
RoundTrip_FailedRetry(e) ==
    LET x == ex[e]
    IN  /\ x.pc = "rt_failed"
        /\ ex' = [ex EXCEPT ![e].pc = "rt_call",
                            ![e].st["rt_fwd"] = NopCloserBuffer(x.reqBody)]
        /\ out' = Slog(out, e, "target_request_failed")
        /\ UNCHANGED <<prog, target>>

\* RoundTrip (main.go): if err != nil { logger.Error(...); return nil, err }
RoundTrip_Failed(e) ==
    LET x == ex[e]
    IN  /\ x.pc = "rt_failed"
        /\ ex' = [ex EXCEPT ![e].pc = "rp_error",
                            ![e].ret = Return(FALSE, x.err)]
        /\ out' = Slog(out, e, "target_request_failed")
        /\ UNCHANGED <<prog, target>>

\* Mutant: the error is logged and no response is written.
ErrorHandlerSilent(e) ==
    LET x == ex[e]
    IN  /\ x.pc = "rp_error"
        /\ ex' = [ex EXCEPT ![e].pc = "done", ![e].err = NoErr, ![e].dump = NoText]
        /\ out' = IF prog = "main" THEN Slog(out, e, "proxy_error") ELSE out
        /\ UNCHANGED <<prog, target>>

\* ReverseProxy calls its error handler when RoundTrip returned an error:
\* main.go's ErrorHandler logs and answers 502; part_000 sets none, and the
\* default handler answers 502 (its log goes to stderr).
ErrorHandler(e) ==
    LET x == ex[e]
    IN  /\ x.pc = "rp_error"
        /\ ex' = [ex EXCEPT ![e].pc = "done",
                            ![e].err = NoErr,
                            ![e].dump = NoText,
                            ![e].rw = httpError(x.rw, StatusBadGateway)]
        /\ out' = IF prog = "main" THEN Slog(out, e, "proxy_error") ELSE out
        /\ UNCHANGED <<prog, target>>

\* RoundTrip (main.go) after the transport returned a response: drain
\* resp.Body; on a read error log and return (resp, readErr); otherwise
\* restore resp.Body from the buffer, give the shallow copy a buffer, dump
\* the copy, and emit the error record or the log record of the dump.
RoundTrip_ReadResponse(e) ==
    LET x == ex[e]
        hasBody == x.resp.Body # NilBody
        rd == ReadAll(x.st[x.resp.Body])
        bytes == IF hasBody THEN rd.bytes ELSE <<>>
        st1 == IF hasBody THEN [x.st EXCEPT ![x.resp.Body] = rd.after] ELSE x.st
        st2 == [st1 EXCEPT !["resp_fwd"] = NopCloserBuffer(bytes)]
        resp2 == [x.resp EXCEPT !.Body = "resp_fwd"]
        st3 == [st2 EXCEPT ![RoundTrip_logRespBody] = NopCloserBuffer(bytes)]
        logResp == [resp2 EXCEPT !.Body = RoundTrip_logRespBody]
        drd == ReadAll(st3[logResp.Body])
        st4 == [st3 EXCEPT ![logResp.Body] = drd.after]
    IN  /\ x.pc = "rt_resp"
        /\ IF hasBody /\ rd.err # NoErr
           THEN /\ ex' = [ex EXCEPT ![e].pc = "rp_error",
                                    ![e].st = st1,
                                    ![e].ret = Return(TRUE, rd.err)]
                /\ out' = Slog(out, e, "response_body_read_failed")
           ELSE \E fails \in BOOLEAN :
                IF fails
                THEN /\ ex' = [ex EXCEPT ![e].pc = "reply",
                                         ![e].resp = resp2,
                                         ![e].respBody = bytes,
                                         ![e].st = st4,
                                         ![e].err = "dump_err"]
                     /\ out' = Slog(out, e, "response_dump_failed")
                ELSE /\ ex' = [ex EXCEPT ![e].pc = "rs_print_open",
                                         ![e].resp = resp2,
                                         ![e].respBody = bytes,
                                         ![e].st = st4,
                                         ![e].dump = DumpResponse(logResp, drd.bytes)]
                     /\ out' = Slog(out, e, "response_status")
        /\ UNCHANGED <<prog, target>>

\* modifyResponse (part_000): body, _ = io.ReadAll(resp.Body);
\* resp.Body.Close(); logger.Info(status).
modifyResponse_Read(e) ==
    LET x == ex[e]
        hasBody == x.resp.Body # NilBody
        rd == ReadAll(x.st[x.resp.Body])
    IN  /\ x.pc = "mr_read"
        /\ ex' = [ex EXCEPT ![e].pc = "mr_dump",
                            ![e].respBody = IF hasBody THEN rd.bytes ELSE <<>>,
                            ![e].st = IF hasBody
                                      THEN [x.st EXCEPT ![x.resp.Body] = Close(rd.after)]
                                      ELSE x.st]
        /\ out' = Slog(out, e, "response_status")
        /\ UNCHANGED <<prog, target>>

\* modifyResponse (part_000): logResp := *resp; logResp.Body = buffer;
\* respDump, _ := DumpResponse(&logResp, true); the opening frame line.
modifyResponse_Dump(e) ==
    LET x == ex[e]
        logBody == NopCloserBuffer(x.respBody)
        drd == ReadAll(logBody)
    IN  /\ x.pc = "mr_dump"
        /\ \E fails \in BOOLEAN :
            ex' = [ex EXCEPT ![e].pc = "rs_print_text",
                             ![e].st["resp_log"] = drd.after,
                             ![e].dump = IF fails THEN NoText
                                         ELSE DumpResponse(x.resp, drd.bytes)]
        /\ out' = Println(out, e, "resp", "open", NoText)
        /\ UNCHANGED <<prog, target>>

\* The three fmt.Println of the response dump (RoundTrip in main.go,
\* modifyResponse in part_000).
Response_Println(e) ==
    LET x == ex[e]
    IN  /\ x.pc \in {"rs_print_open", "rs_print_text", "rs_print_close"}
        /\ CASE x.pc = "rs_print_open" ->
                  /\ ex' = [ex EXCEPT ![e].pc = "rs_print_text"]
                  /\ out' = Println(out, e, "resp", "open", NoText)
             [] x.pc = "rs_print_text" ->
                  /\ ex' = [ex EXCEPT ![e].pc = "rs_print_close"]
                  /\ out' = Println(out, e, "resp", "text", x.dump)
             [] OTHER ->
                  /\ ex' = [ex EXCEPT ![e].pc = "reply", ![e].dump = NoText]
                  /\ out' = Println(out, e, "resp", "close", NoText)
        /\ UNCHANGED <<prog, target>>

\* main.go: RoundTrip returns (resp, nil).  part_000: modifyResponse sets
\* resp.Body = NopCloser(NewBuffer(body)) and returns nil.  ReverseProxy
\* then writes the status and copies resp.Body to the client, and closes it.
ReverseProxy_Reply(e) ==
    LET x == ex[e]
        st1 == IF prog = "part0"
               THEN [x.st EXCEPT !["resp_fwd"] = NopCloserBuffer(x.respBody)]
               ELSE x.st
        resp1 == IF prog = "part0" THEN [x.resp EXCEPT !.Body = "resp_fwd"] ELSE x.resp
        rd == ReadAll(st1[resp1.Body])
    IN  /\ x.pc = "reply"
        /\ ex' = [ex EXCEPT ![e].pc = "done",
                            ![e].resp = resp1,
                            ![e].err = NoErr,
                            ![e].dump = NoText,
                            ![e].ret = IF prog = "main" THEN Return(TRUE, NoErr) ELSE x.ret,
                            ![e].st = [st1 EXCEPT ![resp1.Body] = Close(rd.after)],
                            ![e].rw = [count |-> x.rw.count + 1,
                                       status |-> resp1.StatusCode,
                                       body |-> rd.bytes]]
        /\ UNCHANGED <<prog, target, out>>

\* ------------------------------------------------------------------ Next
\* One step of the goroutine serving exchange e.
Step(e) ==
    \/ handler_ReadBody(e)
    \/ handler_LogReceived(e)
    \/ handler_Dump(e)
    \/ handler_Println(e)
    \/ handler_ServeHTTP(e)
    \/ RoundTrip_Begin(e)
    \/ RoundTrip_Println(e)
    \/ Transport_RoundTrip(e)
    \/ Transport_Return(e)
    \/ RoundTrip_Failed(e)
    \/ ErrorHandler(e)
    \/ RoundTrip_ReadResponse(e)
    \/ modifyResponse_Read(e)
    \/ modifyResponse_Dump(e)
    \/ Response_Println(e)
    \/ ReverseProxy_Reply(e)

Next == \E e \in Exchanges : Accept(e) \/ Step(e)

Spec == Init /\ [][Next]_vars

\* A goroutine that can run is eventually run, and a call of the underlying
\* transport eventually returns (with a response or with an error).
FairSpec == Spec /\ \A e \in Exchanges : WF_vars(Step(e))

\* ------------------------------------------------------------ vocabulary
Last(o) == o[Len(o)]

InFlight(e) == ex[e].pc \notin {"idle", "done"}

Invoked(e) == ex[e].up.calls > 0

ClientReadFails(e) == ex[e].sent.failAt # -1

HasForwardedFor(h) == \E p \in h : CanonicalMIMEHeaderKey(p[1]) = "X-Forwarded-For"

\* The bytes the upstream sent as the response body of exchange e.
UpstreamBody(e) == ex[e].st["upstream"].data

\* This step is a write of exchange e to stdout.
Writes(e) == out' # out /\ ex'[e] # ex[e] /\ Last(out').ex = e

\* This step writes a line of e's dump of the given kind.
Emits(e, kind) == Writes(e) /\ Last(out').kind = kind

\* ---------------------------------------------------------------- claims
\* C1: whenever the underlying transport has been invoked for an exchange,
\* it read the request body from offset zero and received exactly the
\* bytes the client sent, whatever the other exchanges were doing and
\* although the handler and RoundTrip each drained and dumped the body.
C1_RequestBodyPreserved ==
    \A e \in Exchanges :
        Invoked(e) =>
            /\ ex[e].up.offset = 0
            /\ ex[e].up.body = ex[e].sent.body

\* A non-empty body was dumped twice and reached the upstream while another
\* exchange was in flight.
C1_Witness ==
    \E e \in Exchanges, f \in Exchanges :
        /\ e # f
        /\ InFlight(f)
        /\ Invoked(e)
        /\ Len(ex[e].sent.body) = MaxBody
        /\ ex[e].up.body = ex[e].sent.body
        /\ ex[e].st["h_log"].pos = MaxBody
        /\ ex[e].st[RoundTrip_logBody].pos = MaxBody

\* C2: when the transport returned a response whose body downloads without
\* error, the response RoundTrip hands back carries an unread body with the
\* upstream's bytes, and the client receives the upstream's status and
\* exactly those bytes.
C2_ResponseBodyPreserved ==
    \A e \in Exchanges :
        (ex[e].resp.present /\ ex[e].st["upstream"].failAt = -1) =>
            /\ ex[e].pc = (IF prog = "main" THEN "reply" ELSE "mr_read") =>
                /\ ex[e].st[ex[e].resp.Body].pos = 0
                /\ ex[e].st[ex[e].resp.Body].data = UpstreamBody(e)
            /\ ex[e].pc = "reply" => ex[e].respBody = UpstreamBody(e)
            /\ ex[e].pc = "done" =>
                /\ ex[e].rw.count = 1
                /\ ex[e].rw.status = ex[e].resp.StatusCode
                /\ ex[e].rw.body = UpstreamBody(e)

\* main.go delivered a non-empty response whose copy was dumped.
C2_Witness ==
    \E e \in Exchanges :
        /\ prog = "main"
        /\ ex[e].pc = "done"
        /\ ex[e].rw.body = RespBytes(MaxBody)
        /\ ex[e].st[RoundTrip_logRespBody].pos = MaxBody

\* The underlying transport returned an error for exchange e.
TransportFailed(e) == ex[e].err = "conn_refused" \/ ex[e].ret.err = "conn_refused"

\* C3: once the underlying transport has failed for an exchange, the
\* exchange never has more than one response, it ends, and when it has
\* ended the client holds exactly one response, of status 502.
C3_TransportFailureGives502 ==
    /\ [](\A e \in Exchanges :
            TransportFailed(e) =>
                /\ ex[e].rw.count <= 1
                /\ ex[e].pc = "done" =>
                    (ex[e].rw.count = 1 /\ ex[e].rw.status = StatusBadGateway))
    /\ <>[](\A e \in Exchanges : TransportFailed(e) => ex[e].pc = "done")

\* The transport refused an attempt and the client got its 502.
C3_Witness ==
    \E e \in Exchanges :
        /\ TransportFailed(e)
        /\ ex[e].up.calls = 1
        /\ ex[e].pc = "done"
        /\ ex[e].rw.status = StatusBadGateway

\* C4: once the handler's read of a breaking upload has happened, the
\* exchange is over with one response of status 500, the director never
\* ran, the transport was never invoked and the upstream received nothing.
C4_UnreadableBodyGives500 ==
    \A e \in Exchanges :
        (ClientReadFails(e) /\ ex[e].pc \notin {"idle", "h_read"}) =>
            /\ ex[e].pc = "done"
            /\ ex[e].rw.count = 1
            /\ ex[e].rw.status = StatusInternalServerError
            /\ ex[e].director = 0
            /\ ex[e].up.calls = 0
            /\ ex[e].up.body = <<>>
            /\ ~ex[e].ret.returned

\* An upload broke after its first byte and was answered 500.
C4_Witness ==
    \E e \in Exchanges :
        /\ ClientReadFails(e)
        /\ ex[e].st["client"].pos >= 1
        /\ ex[e].pc = "done"
        /\ ex[e].rw.status = StatusInternalServerError

\* C5: the request the underlying transport was invoked with has no
\* X-Forwarded-For header, and neither has an outbound dump, be it the one
\* RoundTrip holds or one on stdout.
C5_NoForwardedForUpstream ==
    /\ \A e \in Exchanges :
        /\ Invoked(e) => ~HasForwardedFor(ex[e].up.req.Header)
        /\ ex[e].pc \in {"rt_print_open", "rt_print_text", "rt_print_close"} =>
                ~HasForwardedFor(ex[e].dump.header)
    /\ \A i \in DOMAIN out : out[i].kind = "out" => ~HasForwardedFor(out[i].text.header)

\* The client sent the header, the routing layer appended to it, and the
\* transport was invoked with the other headers only.
C5_Witness ==
    \E e \in Exchanges :
        /\ ex[e].sent.xff
        /\ Len(HeaderGet(ex[e].r.Header, "X-Forwarded-For")) = 1
        /\ Invoked(e)
        /\ HeaderNames(ex[e].up.req.Header) = {"Content-Type"}

\* RoundTrip's own read of the request body failed.
RoundTripReadFailed(e) == ex[e].ret.err = "read_err" /\ ~ex[e].ret.resp

\* C7: the underlying transport is invoked at most once per exchange, and
\* exactly once by the time an exchange has ended whose body the handler
\* and RoundTrip read without error, also when that one attempt failed.
C7_OneUpstreamAttempt ==
    \A e \in Exchanges :
        /\ ex[e].up.calls <= 1
        /\ (ex[e].pc = "done" /\ ~ClientReadFails(e) /\ ~RoundTripReadFailed(e)) =>
                ex[e].up.calls = 1

\* A refused attempt, ended with one invocation.
C7_Witness ==
    \E e \in Exchanges :
        /\ ex[e].pc = "done"
        /\ ex[e].ret.err = "conn_refused"
        /\ ex[e].up.calls = 1

\* C8: every line of an exchange's outbound dump is written while its
\* transport has not been invoked, an invoked exchange has no outbound dump
\* line left to write, and every line of its response dump is written
\* after the transport returned its response, whatever the other exchanges
\* write in between.
C8_DumpOrder ==
    [][\A e \in Exchanges :
        /\ Emits(e, "out") => (ex'[e].up.calls = 0 /\ ~ex'[e].resp.present)
        /\ ex'[e].up.calls > 0 =>
                ex'[e].pc \notin {"rt_entry", "rt_print_open", "rt_print_text",
                                  "rt_print_close"}
        /\ Emits(e, "resp") =>
                (ex[e].up.calls = 1 /\ ex[e].resp.present /\ ex[e].pc # "rt_wait")]_vars

\* The text of a response dump has just been written, after the transport
\* was invoked once, while another exchange is in flight.
C8_Witness ==
    \E e \in Exchanges, f \in Exchanges :
        /\ e # f
        /\ InFlight(f)
        /\ ex[e].pc = "rs_print_close"
        /\ ex[e].up.calls = 1
        /\ Len(out) > 0
        /\ Last(out) = Entry(e, "resp", "text", ex[e].dump)

\* The part of a dump that precedes the given part.
PartBefore(part) == IF part = "close" THEN "text" ELSE "open"

\* C9: the dump text and the closing frame of a dump are each written
\* directly after the preceding line of the same dump: no write of another
\* exchange lies between the three lines of one dump.
C9_DumpContiguous ==
    [][\A e \in Exchanges :
        (Writes(e) /\ Last(out').kind # "slog" /\ Last(out').part # "open") =>
            /\ Len(out) > 0
            /\ Last(out).ex = e
            /\ Last(out).kind = Last(out').kind
            /\ Last(out).part = PartBefore(Last(out').part)]_vars

DumpFailureMessages == {"client_dump_failed", "out_dump_failed", "response_dump_failed"}

\* C10 (main.go): the step in which a dump fails to render writes the
\* error record, writes no response and leaves the exchange at the next
\* stage of the pipeline; and the stage that follows a failed dump does its
\* work: ServeHTTP hands RoundTrip the client's bytes unread, the transport
\* is invoked with the client's bytes from offset zero, the client is sent
\* the upstream's status and bytes.
C10_DumpFailureTolerated ==
    [][\A e \in Exchanges :
        /\ (ex'[e].err = "dump_err" /\ ex[e].err # "dump_err") =>
                /\ out' # out
                /\ Last(out').ex = e
                /\ Last(out').kind = "slog"
                /\ Last(out').part \in DumpFailureMessages
                /\ ex'[e].pc \in {"h_serve", "rt_call", "reply"}
                /\ ex'[e].rw = ex[e].rw
        /\ (ex[e].err = "dump_err" /\ ex'[e] # ex[e]) =>
                CASE ex[e].pc = "h_serve" ->
                        /\ ex'[e].pc = "rt_entry"
                        /\ ex'[e].st["h_fwd"].data = ex[e].sent.body
                        /\ ex'[e].st["h_fwd"].pos = 0
                        /\ ex'[e].req.Body \in {"h_fwd", NilBody}
                        /\ ex'[e].req.Body = NilBody => ex[e].sent.body = <<>>
                  [] ex[e].pc = "rt_call" ->
                        /\ ex'[e].pc = "rt_wait"
                        /\ ex'[e].up.calls = 1
                        /\ ex'[e].up.offset = 0
                        /\ ex'[e].up.body = ex[e].sent.body
                  [] ex[e].pc = "reply" ->
                        /\ ex'[e].pc = "done"
                        /\ ex'[e].rw.count = 1
                        /\ ex'[e].rw.status = ex[e].resp.StatusCode
                        /\ ex'[e].rw.body = UpstreamBody(e)
                  [] OTHER -> ex[e].pc = "rt_wait"]_vars

\* The response dump has just failed: the error record is on stdout and
\* RoundTrip is about to return the response.
C10_Witness ==
    \E e \in Exchanges :
        /\ prog = "main"
        /\ ex[e].pc = "reply"
        /\ ex[e].err = "dump_err"
        /\ Len(ex[e].respBody) = MaxBody
        /\ Len(out) > 0
        /\ Last(out) = Entry(e, "slog", "response_dump_failed", NoText)

\* What the client of a finished exchange must hold: 500 for a breaking
\* upload, 502 when RoundTrip returned an error, otherwise the upstream's
\* status and bytes.  (part_000 does not report a breaking download, so
\* there the bytes are the upstream's when the download did not break.)
Outcome(e) ==
    IF ClientReadFails(e)
    THEN ex[e].rw.status = StatusInternalServerError
    ELSE IF ex[e].ret.err # NoErr
    THEN ex[e].rw.status = StatusBadGateway
    ELSE /\ ex[e].rw.status = ex[e].resp.StatusCode
         /\ (prog = "main" \/ ex[e].st["upstream"].failAt = -1) =>
                ex[e].rw.body = UpstreamBody(e)

\* C6: no exchange ever has more than one response or one before it ends;
\* a finished exchange has exactly one, decided by its own upload and its
\* own transport result; and every accepted exchange finishes.
C6_EveryRequestAnswered ==
    /\ [](\A e \in Exchanges :
            /\ ex[e].rw.count <= 1
            /\ ex[e].pc # "done" => ex[e].rw.count = 0
            /\ ex[e].pc = "done" => (ex[e].rw.count = 1 /\ Outcome(e)))
    /\ <>[](\A e \in Exchanges : ex[e].pc \in {"idle", "done"})

\* One exchange ended in 500 and the other delivered the upstream's body.
C6_Witness ==
    \E e \in Exchanges, f \in Exchanges :
        /\ prog = "main"
        /\ ex[e].pc = "done" /\ ex[f].pc = "done"
        /\ ex[e].rw.status = StatusInternalServerError
        /\ ex[f].ret.err = NoErr
        /\ ex[f].rw.count = 1
        /\ ex[f].rw.body = RespBytes(MaxBody)

\* The download of e's upstream response body breaks in its middle.
UpstreamReadFails(e) == ex[e].resp.present /\ ex[e].st["upstream"].failAt # -1

\* C11: a read error while a body is duplicated aborts the exchange: a
\* breaking upload ends in 500 with no upstream call, the upstream never
\* receives fewer bytes than the client sent, and a breaking download ends
\* in an error response, never in the upstream's status with a cut body.
C11_ReadErrorAborts ==
    \A e \in Exchanges :
        /\ (ClientReadFails(e) /\ ex[e].pc \notin {"idle", "h_read"}) =>
                /\ ex[e].pc = "done"
                /\ ex[e].rw.status = StatusInternalServerError
                /\ ~Invoked(e)
        /\ Invoked(e) => ex[e].up.body = ex[e].sent.body
        /\ (UpstreamReadFails(e) /\ ex[e].pc = "done") =>
                /\ ex[e].rw.status = StatusBadGateway
                /\ ex[e].rw.body = <<>>
        /\ (ex[e].rw.count > 0 /\ ex[e].rw.status = ex[e].resp.StatusCode) =>
                ex[e].rw.body = UpstreamBody(e)

\* The destination of req is the target's.
AtTarget(req) ==
    /\ req.URL.Scheme = target.Scheme
    /\ req.URL.Host = target.Host
    /\ req.URL.Path = target.Path
    /\ req.Host = target.Host

\* C12: the request the director has rewritten carries the target's scheme,
\* host and path and the target's host as Host, with the method, the query
\* string, every header but the X-Forwarded-For that ReverseProxy sets after
\* the director, and the body of the inbound request; the transport is
\* handed that destination, method and query; and the target always equals
\* its startup value.
C12_DirectorFrame ==
    /\ target = StartupTarget
    /\ \A e \in Exchanges :
        /\ ex[e].pc = "rt_entry" =>
            /\ ex[e].director = 1
            /\ AtTarget(ex[e].req)
            /\ ex[e].req.Method = ex[e].r.Method
            /\ ex[e].req.URL.RawQuery = ex[e].r.URL.RawQuery
            /\ HeaderDel(ex[e].req.Header, "X-Forwarded-For")
                   = HeaderDel(ex[e].r.Header, "X-Forwarded-For")
            /\ ex[e].req.Body = ReverseProxy_outreq(ex[e].r).Body
            /\ ex[e].req.ContentLength = ex[e].r.ContentLength
        /\ Invoked(e) =>
            /\ AtTarget(ex[e].up.req)
            /\ ex[e].up.req.Method = ex[e].r.Method
            /\ ex[e].up.req.URL.RawQuery = ex[e].r.URL.RawQuery
        /\ ex[e].pc # "idle" =>
            /\ ex[e].r.URL.Path = "/in"
            /\ ex[e].r.Host = "proxy.local:8080"

\* Both exchanges are past the director at once, one with a body and one
\* without, each rewritten to the target with its own method and query.
C12_Witness ==
    \E e \in Exchanges, f \in Exchanges :
        /\ ex[e].pc = "rt_entry" /\ ex[f].pc = "rt_entry"
        /\ ex[e].req.Method = "POST" /\ ex[f].req.Method = "GET"
        /\ ex[e].req.Body = "h_fwd" /\ ex[f].req.Body = NilBody
        /\ ex[e].req.URL.Path = "/svc" /\ ex[e].req.URL.RawQuery = "q=1"
        /\ ex[e].r.URL.Path = "/in"
        /\ HasForwardedFor(ex[e].r.Header)

\* C13: once the underlying transport has failed for an exchange, RoundTrip
\* has either not returned yet or returned a nil response with the
\* transport's own error; the exchange holds no response and no response
\* dump, and what it still writes are the error records, never a line of a
\* response dump.
C13_TransportErrorReturned ==
    [][\A e \in Exchanges :
        TransportFailed(e)' =>
            /\ ex'[e].pc \in {"rt_failed", "rp_error", "done"}
            /\ IF ex'[e].pc = "rt_failed"
               THEN ex'[e].ret = NoReturn
               ELSE ex'[e].ret = Return(FALSE, "conn_refused")
            /\ ~ex'[e].resp.present
            /\ ex'[e].dump = NoText
            /\ Writes(e) =>
                /\ Last(out').kind = "slog"
                /\ Last(out').part \in {"target_request_failed", "proxy_error"}]_vars

\* RoundTrip of main.go has just logged the transport's error and returned
\* it with a nil response.
C13_Witness ==
    \E e \in Exchanges :
        /\ prog = "main"
        /\ ex[e].pc = "rp_error"
        /\ ex[e].err = "conn_refused"
        /\ ex[e].ret = Return(FALSE, "conn_refused")
        /\ Invoked(e)
        /\ Len(out) > 0
        /\ Last(out) = Entry(e, "slog", "target_request_failed", NoText)

\* C14: a network stream the proxy has drained is closed once the draining
\* operation is past it: the client's upload when the handler has left its
\* read (on to the log record, or out with 500), and the upstream's download
\* when the response read of RoundTrip or modifyResponse is over.
C14_DrainedStreamsClosed ==
    \A e \in Exchanges :
        /\ ex[e].pc \notin {"idle", "h_read"} => ex[e].st["client"].closed
        /\ (ex[e].resp.present /\ ex[e].pc \notin {"rt_resp", "mr_read"}) =>
                ex[e].st["upstream"].closed

\* The request of exchange e as the server received it.
AsReceived(e) == ServerRequest(e, ex[e].sent)

\* C15: a line of an exchange's client-request dump is written while its
\* director has not run and nothing was sent upstream, and its text is the
\* dump of the request as received (path and host not the target's); the
\* handler reaches ServeHTTP only by writing the closing line of that dump
\* (or, in main.go, the record of a dump that could not be rendered), and
\* the director runs only from there; a line of the outbound dump is
\* written after the director ran once, and its text shows the target's
\* path and host.  (part_000 prints an empty text for a dump that could
\* not be rendered.)
C15_ClientDumpBeforeDirector ==
    [][\A e \in Exchanges :
        /\ Emits(e, "client") =>
            /\ ex'[e].director = 0
            /\ ~Invoked(e)'
            /\ Last(out').part = "text" =>
                \/ prog = "part0" /\ Last(out').text = NoText
                \/ /\ Last(out').text = DumpRequest(AsReceived(e), ex[e].sent.body)
                   /\ Last(out').text.first[2] # target.Path
                   /\ Last(out').text.host # target.Host
        /\ (ex'[e].pc = "h_serve" /\ ex[e].pc # "h_serve") =>
            \/ Emits(e, "client") /\ Last(out').part = "close"
            \/ prog = "main" /\ Writes(e) /\ Last(out').part = "client_dump_failed"
        /\ ex'[e].director # ex[e].director =>
            /\ ex[e].pc = "h_serve"
            /\ ex'[e].director = 1
        /\ Emits(e, "out") =>
            /\ ex[e].director = 1
            /\ Last(out').part = "text" =>
                \/ prog = "part0" /\ Last(out').text = NoText
                \/ /\ Len(Last(out').text.first) = 3
                   /\ Last(out').text.first[2] = target.Path
                   /\ Last(out').text.host = target.Host
                   /\ Last(out').text.first[3] = AsReceived(e).URL.RawQuery]_vars

\* One exchange has just printed its outbound dump, showing the target,
\* while the other has printed its client dump, showing the request as
\* received, and has not reached the director.
C15_Witness ==
    \E e \in Exchanges, f \in Exchanges :
        /\ ex[e].pc = "rt_print_close"
        /\ ex[e].director = 1
        /\ Len(out) > 0
        /\ Last(out).ex = e /\ Last(out).kind = "out" /\ Last(out).part = "text"
        /\ Len(Last(out).text.first) = 3
        /\ Last(out).text.first[2] = "/svc"
        /\ Last(out).text.host = "backend.example"
        /\ ex[f].pc = "h_print_close"
        /\ ex[f].director = 0
        /\ Len(ex[f].dump.first) = 3
        /\ ex[f].dump.first[2] = "/in"
        /\ ex[f].dump.host = "proxy.local:8080"

\* C16: what RoundTrip has returned is a response or an error, never both
\* and never neither: the response is nil exactly when the error is not.
C16_ResponseXorError ==
    \A e \in Exchanges :
        ex[e].ret.returned => (ex[e].ret.resp <=> ex[e].ret.err = NoErr)

====
